---- MODULE Spec2Model ----
(***************************************************************************)
(* CrowdSolve REST backend (src/server.js): users, problems with an        *)
(* optional Cloudinary image, solutions with upvotes, comments.            *)
(*                                                                         *)
(* Every request handler is an async function.  Node runs the code between *)
(* two awaits without interruption, so a handler is modelled as one action *)
(* per awaited call: the action is the call's effect on the record store   *)
(* or the asset store together with the handler's code up to the next      *)
(* await.  Several handlers are in flight at once (Slots) and interleave   *)
(* at their awaits.                                                        *)
(*                                                                         *)
(* Record store = the MongoDB collections behind the Mongoose models.      *)
(* A Mongoose save() of a fetched document sends only the modified paths   *)
(* ($set), an array push is sent as $push, an array splice as $set of the  *)
(* whole array guarded by the document version __v, and a save of a        *)
(* document that is no longer stored is rejected.                          *)
(* Asset store = Cloudinary (upload_stream / destroy).                     *)
(*                                                                         *)
(* Backend calls that can fail in the model are the ones whose failure the *)
(* handlers treat differently: the upload (rejects into the catch), the    *)
(* destroy (caught and logged), and the writes problem.save() and          *)
(* findByIdAndDelete (reject into the catch).  Lookups succeed.            *)
(***************************************************************************)
EXTENDS Integers, Sequences, FiniteSets, TLC

\* ------------------------------------------------------------------ bounds
MaxReq == 2        \* request handlers in flight at once
MaxProblems == 1   \* problems ever created
MaxAssets == 2     \* images ever uploaded
MaxFaults == 1     \* backend calls that fail (upload, destroy, save, delete)
MaxSolutions == 1  \* solutions ever created
MaxVersion == 4    \* saves of one solution's upvotes (its __v)
MaxUsers == 2      \* users ever registered
MaxComments == 1   \* comments ever created
MaxApiReq == 1     \* request handlers in flight at once in the whole-API spec

VARIABLES
    users,      \* User collection: set of user documents
    problems,   \* Problem collection: _id -> document
    solutions,  \* Solution collection: _id -> document
    comments,   \* Comment collection: _id -> document
    assets,     \* Cloudinary: public ids of the stored assets
    uploads,    \* number of assets Cloudinary has stored so far
    req,        \* the request handlers in flight: slot -> handler state
    wrote,      \* slot -> the request has changed the record store
    faults,     \* number of failed backend calls so far
    creator,    \* problem _id -> userId claim of the request that created it
    tomb,       \* removed problem _id -> its image field when removed
    destroyed,  \* <<problem _id, public id>> -> destroy calls that DELETE
                \* requests on the problem have issued for the public id
    toggled     \* solution _id -> the last successful upvote toggles on it

vars == <<users, problems, solutions, comments, assets, uploads, req, wrote,
          faults, creator, tomb, destroyed, toggled>>

store == <<users, problems, solutions, comments>>

Slots == 1..MaxReq

\* ------------------------------------------------------------ JS values
Absent == "undefined"   \* a field the request body does not carry
Null == <<>>            \* null (an image field without a URL)
NoUser == <<>>          \* req.user when no token was verified
NoDoc == [none |-> TRUE]  \* findById / findOne found nothing (null)

\* JS truthiness of a body field, as used by `x || y`.
Truthy(v) == v # Absent /\ v # ""

\* a || b
OrElse(a, b) == IF Truthy(a) THEN a ELSE b

\* ObjectId.toString(): the hex string of an ObjectId, and Mongoose's cast of
\* such a string back to an ObjectId.
OidString(oid) == <<"hex", oid>>
CastObjectId(str) == str[2]

\* ------------------------------------------------------------ Cloudinary
\* The secure_url of the asset Cloudinary stores as crowdsolve/<n>, as its
\* path segments; the last segment is <name>.<format>.
SecureUrl(n) == <<"https://res.cloudinary.com", "crowdsolve", <<n, "jpg">>>>

\* problem.image.split('/').pop().split('.')[0], then `crowdsolve/${publicId}`
PublicIdOf(url) == <<"crowdsolve", url[Len(url)][1]>>

\* The public id Cloudinary gives the n-th upload into the folder.
NewPublicId(n) == <<"crowdsolve", n>>

\* --------------------------------------------------------------- schemas
\* `required: true` on a String path: absent and empty values are rejected.
Required(v) == v # Absent /\ v # ""

ProblemValid(doc) ==
    /\ Required(doc.title)
    /\ Required(doc.description)
    /\ Required(doc.location)

\* ------------------------------------------------------------ middleware
\* The userIds carried by the tokens the server has signed.
Identities == {OidString(u.id) : u \in users}

\* What a request presents: no Authorization header, a token that fails
\* verification, or a signed token (its userId claim).
NoToken == <<"none">>
BadToken == <<"bad">>
Credentials == {NoToken, BadToken} \cup Identities

\* Mutant: a token that fails verification is answered like a missing one.
AuthenticateTokenOnly401(cred) ==
    IF cred \in {NoToken, BadToken} THEN 401 ELSE 0

\* authenticateToken: 401 without a token, 403 when jwt.verify fails,
\* 0 when the handler runs (next()).
AuthenticateToken(cred) ==
    IF cred = NoToken THEN 401 ELSE IF cred = BadToken THEN 403 ELSE 0

NoBody == [title |-> Absent, description |-> Absent, location |-> Absent]

Idle ==
    [op |-> "idle", pc |-> "idle", user |-> NoUser, id |-> 0, body |-> NoBody,
     file |-> FALSE, imageUrl |-> Null, doc |-> NoDoc, mod |-> {},
     index |-> -1, taken |-> {}, found |-> FALSE, calls |-> <<>>, resp |-> 0,
     out |-> <<>>, cred |-> NoToken, failed |-> {}]

\* A request as it leaves authenticateToken: answered 401/403 there (the
\* body is not parsed), or handed to the route handler with req.user set;
\* the handler's first awaited call is `first`.  What the request presented
\* is kept as history (cred).
Received(op, cred, id, body, file, first) ==
    LET st == AuthenticateToken(cred) IN
    IF st # 0
    THEN [Idle EXCEPT !.op = op, !.pc = "done", !.resp = st, !.cred = cred]
    ELSE [Idle EXCEPT !.op = op, !.pc = first, !.user = cred, !.id = id,
                      !.body = body, !.file = file, !.cred = cred]

Free(r) == req[r].pc \in {"idle", "done"}

\* res.status(code).json(...): the handler ends and its locals are dropped;
\* what the request was, whether its lookup found a document, which service
\* calls it issued and which of its calls failed is kept as history (a DELETE also keeps the document
\* it read).
Respond(r, code) ==
    [Idle EXCEPT !.op = req[r].op, !.pc = "done", !.resp = code,
                 !.user = req[r].user, !.id = req[r].id, !.file = req[r].file,
                 !.found = req[r].found, !.calls = req[r].calls,
                 !.cred = req[r].cred, !.failed = req[r].failed]

\* The handler's catch after the awaited call `call` was rejected: 500.
Rejected(r, call) == [Respond(r, 500) EXCEPT !.failed = @ \cup {call}]

\* History: whether the request in slot r has changed the record store.
Track(r) == wrote' = [wrote EXCEPT ![r] = @ \/ (store' # store)]

Start(r) == wrote' = [wrote EXCEPT ![r] = FALSE]

\* Requests that may still upload an image / still create a problem.
PendingUploads ==
    Cardinality({r \in Slots : /\ req[r].op \in {"postProblem", "putProblem"}
                               /\ req[r].file
                               /\ req[r].pc \in {"findById", "destroy", "upload"}})

PendingCreates ==
    Cardinality({r \in Slots : /\ req[r].op = "postProblem"
                               /\ req[r].pc \in {"upload", "save"}})

CanFail == faults < MaxFaults

\* ------------------------------------------------- POST /api/problems
PostBodies ==
    {[title |-> "a", description |-> "a", location |-> "a"],
     [title |-> Absent, description |-> "a", location |-> "a"]}

PostProblemsRecv(r) ==
    /\ Free(r)
    /\ \E cred \in Credentials, body \in PostBodies, file \in BOOLEAN :
          /\ file => uploads + PendingUploads < MaxAssets
          /\ Cardinality(DOMAIN creator) + PendingCreates < MaxProblems
          /\ req' = [req EXCEPT ![r] =
                        Received("postProblem", cred, 0, body, file,
                                 IF file THEN "upload" ELSE "save")]
    /\ Start(r)
    /\ UNCHANGED <<store, assets, uploads, faults, creator, tomb, destroyed, toggled>>

\* lines 252-254: a rejected upload lands in the handler's catch
PostUploadRejected(r) == Rejected(r, "upload")

\* await uploadToCloudinary(req.file): the promise resolves with the stored
\* asset or rejects.
PostProblemsUpload(r) ==
    /\ req[r].op = "postProblem" /\ req[r].pc = "upload"
    /\ \/ LET n == uploads + 1 IN
          /\ assets' = assets \cup {NewPublicId(n)}
          /\ uploads' = n
          /\ req' = [req EXCEPT ![r] =
                        [@ EXCEPT !.imageUrl = SecureUrl(n), !.pc = "save",
                                  !.calls = Append(@, <<"upload", NewPublicId(n)>>)]]
          /\ UNCHANGED faults
       \/ /\ CanFail
          /\ faults' = faults + 1
          /\ req' = [req EXCEPT ![r] =
                        [PostUploadRejected(r) EXCEPT
                            !.calls = Append(@, <<"upload", Null>>)]]
          /\ UNCHANGED <<assets, uploads>>
    /\ UNCHANGED <<store, creator, tomb, destroyed, toggled>>
    /\ Track(r)

\* new Problem({...}) at lines 240-246; status takes the schema default.
NewProblem(body, imageUrl, user) ==
    [title |-> body.title, description |-> body.description,
     location |-> body.location, image |-> imageUrl,
     postedBy |-> CastObjectId(user), status |-> "open"]

\* await problem.save(), populate, res.status(201)
PostProblemsSave(r) ==
    /\ req[r].op = "postProblem" /\ req[r].pc = "save"
    /\ LET doc == NewProblem(req[r].body, req[r].imageUrl, req[r].user)
           id == Cardinality(DOMAIN creator) + 1
       IN \/ /\ ProblemValid(doc)
             /\ problems' = problems @@ (id :> doc)
             /\ creator' = creator @@ (id :> req[r].user)
             /\ req' = [req EXCEPT ![r] =
                           [Respond(r, 201) EXCEPT !.id = id]]
             /\ UNCHANGED faults
          \/ /\ ~ProblemValid(doc)
             /\ req' = [req EXCEPT ![r] = Rejected(r, "save")]
             /\ UNCHANGED <<problems, creator, faults>>
          \/ /\ ProblemValid(doc) /\ CanFail
             /\ faults' = faults + 1
             /\ req' = [req EXCEPT ![r] = Rejected(r, "save")]
             /\ UNCHANGED <<problems, creator>>
    /\ UNCHANGED <<users, solutions, comments, assets, uploads, tomb, destroyed, toggled>>
    /\ Track(r)

\* -------------------------------------------------- PUT /api/problems/:id
ProblemIds == 1..MaxProblems

PutBodies ==
    {NoBody,
     [title |-> "b", description |-> Absent, location |-> Absent],
     [title |-> "", description |-> "b", location |-> "b"]}

Paths == {"title", "description", "location", "image", "postedBy", "status"}

\* Problem.findById(req.params.id)
FindProblem(id) == IF id \in DOMAIN problems THEN problems[id] ELSE NoDoc

\* Mutant: the ownership check of PUT is missing.
PutAuthorizedAnyone(doc, user) == TRUE

\* line 284 (negated): the stored owner is the authenticated user
PutAuthorized(doc, user) == OidString(doc.postedBy) = user

\* Mutant: an update also marks the problem solved.
AssignFieldsAndSolve(doc, body) ==
    [doc EXCEPT !.title = OrElse(body.title, @),
                !.description = OrElse(body.description, @),
                !.location = OrElse(body.location, @),
                !.status = "solved"]

\* lines 289-291
AssignFields(doc, body) ==
    [doc EXCEPT !.title = OrElse(body.title, @),
                !.description = OrElse(body.description, @),
                !.location = OrElse(body.location, @)]

\* The paths Mongoose marks modified: those assigned a different value.
Modified(old, new) == {path \in Paths : new[path] # old[path]}

\* Mutant: the old image is not destroyed before the upload.
PutAssetPhaseUploadFirst(problem) == "upload"

\* lines 296-306: with a new file, the old image is destroyed first when the
\* problem has one, then the file is uploaded
PutAssetPhase(problem) == IF problem.image # Null THEN "destroy" ELSE "upload"

PutProblemRecv(r) ==
    /\ Free(r)
    /\ \E cred \in Credentials, id \in ProblemIds, body \in PutBodies,
          file \in BOOLEAN :
          /\ file => uploads + PendingUploads < MaxAssets
          /\ req' = [req EXCEPT ![r] =
                        Received("putProblem", cred, id, body, file, "findById")]
    /\ Start(r)
    /\ UNCHANGED <<store, assets, uploads, faults, creator, tomb, destroyed, toggled>>

\* await Problem.findById, then lines 279-296 / 306 / 310 up to the next await
PutProblemFindById(r) ==
    /\ req[r].op = "putProblem" /\ req[r].pc = "findById"
    /\ LET problem == FindProblem(req[r].id) IN
       req' = [req EXCEPT ![r] =
          IF problem = NoDoc THEN Respond(r, 404)
          ELSE IF ~PutAuthorized(problem, req[r].user)
               THEN [Respond(r, 403) EXCEPT !.found = TRUE]
          ELSE [@ EXCEPT !.found = TRUE,
                         !.doc = AssignFields(problem, req[r].body),
                         !.mod = Modified(problem, AssignFields(problem, req[r].body)),
                         !.pc = IF req[r].file THEN PutAssetPhase(problem)
                                ELSE "save"]]
    /\ UNCHANGED <<store, assets, uploads, faults, creator, tomb, destroyed, toggled>>
    /\ Track(r)

\* Mutant: the destroy is awaited outside the try/catch, so its rejection
\* lands in the handler's catch.
PutDestroyRejectedThrown(r) == Rejected(r, "destroy")

\* lines 300-302: a rejected destroy is logged and the handler goes on
PutDestroyRejected(r) ==
    [req[r] EXCEPT !.pc = "upload", !.failed = @ \cup {"destroy"}]

\* await cloudinary.uploader.destroy(...) inside try/catch: the asset is
\* removed, or the call fails and the error is only logged.
PutProblemDestroy(r) ==
    /\ req[r].op = "putProblem" /\ req[r].pc = "destroy"
    /\ LET publicId == PublicIdOf(req[r].doc.image) IN
       \/ /\ assets' = assets \ {publicId}
          /\ req' = [req EXCEPT ![r] =
                        [@ EXCEPT !.pc = "upload",
                                  !.calls = Append(@, <<"destroy", publicId>>)]]
          /\ UNCHANGED faults
       \/ /\ CanFail
          /\ faults' = faults + 1
          /\ req' = [req EXCEPT ![r] =
                        [PutDestroyRejected(r) EXCEPT
                            !.calls = Append(@, <<"destroy", publicId>>)]]
          /\ UNCHANGED assets
    /\ UNCHANGED <<store, uploads, creator, tomb, destroyed, toggled>>
    /\ Track(r)

\* Mutant: the upload error is logged and swallowed like the destroy error,
\* and the handler goes on to save.
PutUploadRejectedSwallowed(r) ==
    [req[r] EXCEPT !.pc = "save", !.failed = @ \cup {"upload"}]

\* lines 314-316: a rejected upload lands in the handler's catch
PutUploadRejected(r) == Rejected(r, "upload")

\* await uploadToCloudinary(req.file); problem.image = secure_url
PutProblemUpload(r) ==
    /\ req[r].op = "putProblem" /\ req[r].pc = "upload"
    /\ \/ LET n == uploads + 1 IN
          /\ assets' = assets \cup {NewPublicId(n)}
          /\ uploads' = n
          /\ req' = [req EXCEPT ![r] =
                        [@ EXCEPT !.doc = [@ EXCEPT !.image = SecureUrl(n)],
                                  !.mod = @ \cup {"image"}, !.pc = "save",
                                  !.calls = Append(@, <<"upload", NewPublicId(n)>>)]]
          /\ UNCHANGED faults
       \/ /\ CanFail
          /\ faults' = faults + 1
          /\ req' = [req EXCEPT ![r] =
                        [PutUploadRejected(r) EXCEPT
                            !.calls = Append(@, <<"upload", Null>>)]]
          /\ UNCHANGED <<assets, uploads>>
    /\ UNCHANGED <<store, creator, tomb, destroyed, toggled>>
    /\ Track(r)

\* The update save() sends: $set of the modified paths.
SetPaths(stored, doc, mod) ==
    [path \in Paths |-> IF path \in mod THEN doc[path] ELSE stored[path]]

\* await problem.save(), populate, res.json(problem)
PutProblemSave(r) ==
    /\ req[r].op = "putProblem" /\ req[r].pc = "save"
    /\ LET id == req[r].id IN
       \/ /\ id \in DOMAIN problems /\ ProblemValid(req[r].doc)
          /\ problems' = [problems EXCEPT ![id] = SetPaths(@, req[r].doc, req[r].mod)]
          /\ req' = [req EXCEPT ![r] = Respond(r, 200)]
          /\ UNCHANGED faults
       \/ /\ id \notin DOMAIN problems \/ ~ProblemValid(req[r].doc)
          /\ req' = [req EXCEPT ![r] = Rejected(r, "save")]
          /\ UNCHANGED <<problems, faults>>
       \/ /\ id \in DOMAIN problems /\ CanFail
          /\ faults' = faults + 1
          /\ req' = [req EXCEPT ![r] = Rejected(r, "save")]
          /\ UNCHANGED problems
    /\ UNCHANGED <<users, solutions, comments, assets, uploads, creator, tomb,
                   destroyed, toggled>>
    /\ Track(r)

\* ----------------------------------------------- DELETE /api/problems/:id
\* Mutant: the ownership check of DELETE is missing.
DeleteAuthorizedAnyone(doc, user) == TRUE

\* line 329 (negated): the stored owner is the authenticated user
DeleteAuthorized(doc, user) == OidString(doc.postedBy) = user

\* Mutant: DELETE forgets the image.
DeleteAssetPhaseSkipped(problem) == "remove"

\* lines 334-341: the image is destroyed first when the problem has one
DeleteAssetPhase(problem) == IF problem.image # Null THEN "destroy" ELSE "remove"

DeleteProblemRecv(r) ==
    /\ Free(r)
    /\ \E cred \in Credentials, id \in ProblemIds :
          req' = [req EXCEPT ![r] =
                     Received("deleteProblem", cred, id, NoBody, FALSE, "findById")]
    /\ Start(r)
    /\ UNCHANGED <<store, assets, uploads, faults, creator, tomb, destroyed, toggled>>

\* await Problem.findById, then lines 324-337 / 344 up to the next await
DeleteProblemFindById(r) ==
    /\ req[r].op = "deleteProblem" /\ req[r].pc = "findById"
    /\ LET problem == FindProblem(req[r].id) IN
       req' = [req EXCEPT ![r] =
          IF problem = NoDoc THEN Respond(r, 404)
          ELSE IF ~DeleteAuthorized(problem, req[r].user)
               THEN [Respond(r, 403) EXCEPT !.found = TRUE]
          ELSE [@ EXCEPT !.found = TRUE, !.doc = problem,
                         !.pc = DeleteAssetPhase(problem)]]
    /\ UNCHANGED <<store, assets, uploads, faults, creator, tomb, destroyed, toggled>>
    /\ Track(r)

Count(f, x) == IF x \in DOMAIN f THEN f[x] ELSE 0

\* lines 338-340: a rejected destroy is logged and the handler goes on
DeleteDestroyRejected(r) ==
    [req[r] EXCEPT !.pc = "remove", !.failed = @ \cup {"destroy"}]

\* await cloudinary.uploader.destroy(...) inside try/catch
DeleteProblemDestroy(r) ==
    /\ req[r].op = "deleteProblem" /\ req[r].pc = "destroy"
    /\ LET publicId == PublicIdOf(req[r].doc.image) IN
       /\ destroyed' = [x \in DOMAIN destroyed \cup {<<req[r].id, publicId>>} |->
                           IF x = <<req[r].id, publicId>>
                           THEN Count(destroyed, x) + 1 ELSE destroyed[x]]
       /\ \/ /\ assets' = assets \ {publicId}
             /\ req' = [req EXCEPT ![r] =
                           [@ EXCEPT !.pc = "remove",
                                     !.calls = Append(@, <<"destroy", publicId>>)]]
             /\ UNCHANGED faults
          \/ /\ CanFail
             /\ faults' = faults + 1
             /\ req' = [req EXCEPT ![r] =
                           [DeleteDestroyRejected(r) EXCEPT
                               !.calls = Append(@, <<"destroy", publicId>>)]]
             /\ UNCHANGED assets
    /\ UNCHANGED <<store, uploads, creator, tomb, toggled>>
    /\ Track(r)

\* await Problem.findByIdAndDelete(req.params.id); res.json(...)
DeleteProblemRemove(r) ==
    /\ req[r].op = "deleteProblem" /\ req[r].pc = "remove"
    /\ LET id == req[r].id IN
       \/ /\ problems' = [p \in DOMAIN problems \ {id} |-> problems[p]]
          /\ tomb' = IF id \in DOMAIN problems
                     THEN tomb @@ (id :> problems[id].image) ELSE tomb
          /\ req' = [req EXCEPT ![r] =
                        [Respond(r, 200) EXCEPT !.doc = req[r].doc]]
          /\ UNCHANGED faults
       \/ /\ CanFail
          /\ faults' = faults + 1
          /\ req' = [req EXCEPT ![r] =
                        [Rejected(r, "remove") EXCEPT !.doc = req[r].doc]]
          /\ UNCHANGED <<problems, tomb>>
    /\ UNCHANGED <<users, solutions, comments, assets, uploads, creator,
                   destroyed, toggled>>
    /\ Track(r)

\* ------------------------------------------------ problem-lifecycle spec
\* bcrypt.hash(password, 10): a salted one-way hash of the password.
Hash(password, salt) == [of |-> password, salt |-> salt]

\* Two users have registered (their tokens are valid for 24 hours).
Registered ==
    {[id |-> 1, username |-> "n1", email |-> "e1", password |-> Hash("p1", 1)],
     [id |-> 2, username |-> "n2", email |-> "e2", password |-> Hash("p1", 2)]}

Empty == [x \in {} |-> 0]

InitProblems ==
    /\ users = Registered
    /\ problems = Empty /\ solutions = Empty /\ comments = Empty
    /\ assets = {} /\ uploads = 0
    /\ req = [r \in Slots |-> Idle]
    /\ wrote = [r \in Slots |-> FALSE]
    /\ faults = 0
    /\ creator = Empty /\ tomb = Empty /\ destroyed = Empty /\ toggled = Empty

NextProblems ==
    \E r \in Slots :
        \/ PostProblemsRecv(r)
        \/ PostProblemsUpload(r)
        \/ PostProblemsSave(r)
        \/ PutProblemRecv(r)
        \/ PutProblemFindById(r)
        \/ PutProblemDestroy(r)
        \/ PutProblemUpload(r)
        \/ PutProblemSave(r)
        \/ DeleteProblemRecv(r)
        \/ DeleteProblemFindById(r)
        \/ DeleteProblemDestroy(r)
        \/ DeleteProblemRemove(r)

SpecProblems == InitProblems /\ [][NextProblems]_vars

\* ---------------------------------------- POST /api/problems/:id/solutions
SolutionIds == 1..MaxSolutions

PendingSolutions ==
    Cardinality({r \in Slots : req[r].op = "postSolution" /\ req[r].pc = "save"})

PostSolutionsRecv(r) ==
    /\ Free(r)
    /\ \E cred \in Credentials, id \in ProblemIds, description \in {"d", Absent} :
          /\ Cardinality(DOMAIN solutions) + PendingSolutions < MaxSolutions
          /\ req' = [req EXCEPT ![r] =
                        Received("postSolution", cred, id,
                                 [NoBody EXCEPT !.description = description],
                                 FALSE, "save")]
    /\ Start(r)
    /\ UNCHANGED <<store, assets, uploads, faults, creator, tomb, destroyed, toggled>>

\* new Solution({...}) at lines 368-372; upvotes starts empty, __v at 0.
NewSolution(body, problemId, user) ==
    [description |-> body.description, problemId |-> problemId,
     postedBy |-> CastObjectId(user), upvotes |-> <<>>, v |-> 0]

\* await solution.save(), populate, res.status(201); the problem id is not
\* looked up.
PostSolutionsSave(r) ==
    /\ req[r].op = "postSolution" /\ req[r].pc = "save"
    /\ LET doc == NewSolution(req[r].body, req[r].id, req[r].user)
           id == Cardinality(DOMAIN solutions) + 1
       IN IF Required(doc.description)
          THEN /\ solutions' = solutions @@ (id :> doc)
               /\ toggled' = toggled @@ (id :> <<>>)
               /\ req' = [req EXCEPT ![r] = Respond(r, 201)]
          ELSE /\ req' = [req EXCEPT ![r] = Respond(r, 500)]
               /\ UNCHANGED <<solutions, toggled>>
    /\ UNCHANGED <<users, problems, comments, assets, uploads, faults, creator,
                   tomb, destroyed>>
    /\ Track(r)

\* ------------------------------------------ POST /api/solutions/:id/upvote
\* Solution.findById(req.params.id)
FindSolution(id) == IF id \in DOMAIN solutions THEN solutions[id] ELSE NoDoc

\* solution.upvotes.indexOf(userId): the 0-based index of the first element
\* equal to the userId string, -1 when there is none.
IndexOf(upvotes, userId) ==
    LET hits == {i \in 1..Len(upvotes) : OidString(upvotes[i]) = userId} IN
    IF hits = {} THEN -1
    ELSE (CHOOSE i \in hits : \A j \in hits : i <= j) - 1

\* upvotes.splice(index, 1): the array without the element at the 0-based index
Splice(upvotes, index) ==
    [i \in 1..(Len(upvotes) - 1) |->
        IF i <= index THEN upvotes[i] ELSE upvotes[i + 1]]

\* upvotes.push(userId)
Push(upvotes, userId) == Append(upvotes, CastObjectId(userId))

\* lines 394-400: the handler's change of its copy of the array
Flip(upvotes, index, userId) ==
    IF index > -1 THEN Splice(upvotes, index) ELSE Push(upvotes, userId)

PendingToggles(id) ==
    Cardinality({r \in Slots : /\ req[r].op = "upvote" /\ req[r].id = id
                               /\ req[r].pc \in {"findById", "save"}})

PostUpvoteRecv(r) ==
    /\ Free(r)
    /\ \E cred \in Credentials, id \in SolutionIds :
          /\ id \in DOMAIN solutions =>
                solutions[id].v + PendingToggles(id) < MaxVersion
          /\ req' = [req EXCEPT ![r] =
                        Received("upvote", cred, id, NoBody, FALSE, "findById")]
    /\ Start(r)
    /\ UNCHANGED <<store, assets, uploads, faults, creator, tomb, destroyed, toggled>>

\* await Solution.findById, then lines 387-400 up to the save
PostUpvoteFindById(r) ==
    /\ req[r].op = "upvote" /\ req[r].pc = "findById"
    /\ LET solution == FindSolution(req[r].id) IN
       req' = [req EXCEPT ![r] =
          IF solution = NoDoc THEN Respond(r, 404)
          ELSE LET upvoteIndex == IndexOf(solution.upvotes, req[r].user) IN
               [@ EXCEPT !.found = TRUE, !.index = upvoteIndex, !.pc = "save",
                         !.doc = [solution EXCEPT
                                     !.upvotes = Flip(@, upvoteIndex, req[r].user)]]]
    /\ UNCHANGED <<store, assets, uploads, faults, creator, tomb, destroyed, toggled>>
    /\ Track(r)

\* Mutant: save() writes the handler's whole array back, with no version
\* check.
SaveUpvotesWholeArray(stored, doc, index, userId) ==
    [stored EXCEPT !.upvotes = doc.upvotes, !.v = @ + 1]

\* What save() makes of the stored document.  A pushed element is sent as
\* $push and lands at the end of the stored array; a spliced array is sent
\* whole ($set) and only matches the stored document at the version read.
\* Both increment __v.  NoDoc stands for the rejected save (VersionError).
SaveUpvotes(stored, doc, index, userId) ==
    IF index = -1
    THEN [stored EXCEPT !.upvotes = Push(@, userId), !.v = @ + 1]
    ELSE IF stored.v = doc.v
         THEN [stored EXCEPT !.upvotes = doc.upvotes, !.v = @ + 1]
         ELSE NoDoc

\* line 403: the response is computed from the handler's copy
UpvoteResponse(doc, index) ==
    [upvotes |-> Len(doc.upvotes), hasUpvoted |-> (index = -1)]

\* History of the successful toggles of a solution: the last two, each with
\* its user, the version it read, and the stored array and version right
\* before and right after its save.
Toggle(r, stored, saved) ==
    [user |-> req[r].user, readV |-> req[r].doc.v, v |-> saved.v,
     before |-> stored.upvotes, after |-> saved.upvotes]

LastTwo(seq, e) == IF Len(seq) = 2 THEN <<seq[2], e>> ELSE Append(seq, e)

\* await solution.save(); res.json({upvotes, hasUpvoted}).  The answered
\* slot keeps, as history, the stored document right after the save.
PostUpvoteSave(r) ==
    /\ req[r].op = "upvote" /\ req[r].pc = "save"
    /\ LET id == req[r].id
           saved == SaveUpvotes(solutions[id], req[r].doc, req[r].index, req[r].user)
       IN IF saved # NoDoc
          THEN /\ solutions' = [solutions EXCEPT ![id] = saved]
               /\ toggled' = [toggled EXCEPT ![id] =
                                 LastTwo(@, Toggle(r, solutions[id], saved))]
               /\ req' = [req EXCEPT ![r] =
                             [Respond(r, 200) EXCEPT
                                 !.out = UpvoteResponse(req[r].doc, req[r].index),
                                 !.doc = saved]]
          ELSE /\ req' = [req EXCEPT ![r] = Respond(r, 500)]
               /\ UNCHANGED <<solutions, toggled>>
    /\ UNCHANGED <<users, problems, comments, assets, uploads, faults, creator,
                   tomb, destroyed>>
    /\ Track(r)

\* --------------------------------------------------------- upvote spec
InitVotes == InitProblems

NextVotes ==
    \E r \in Slots :
        \/ PostSolutionsRecv(r)
        \/ PostSolutionsSave(r)
        \/ PostUpvoteRecv(r)
        \/ PostUpvoteFindById(r)
        \/ PostUpvoteSave(r)

SpecVotes == InitVotes /\ [][NextVotes]_vars

\* ---------------------------------------- POST /api/solutions/:id/comments
PendingComments ==
    Cardinality({r \in Slots : req[r].op = "postComment" /\ req[r].pc = "save"})

\* The slot's body carries the comment's text in its description field.
PostCommentsRecv(r) ==
    /\ Free(r)
    /\ \E cred \in Credentials, id \in SolutionIds, text \in {"t", Absent} :
          /\ Cardinality(DOMAIN comments) + PendingComments < MaxComments
          /\ req' = [req EXCEPT ![r] =
                        Received("postComment", cred, id,
                                 [NoBody EXCEPT !.description = text],
                                 FALSE, "save")]
    /\ Start(r)
    /\ UNCHANGED <<store, assets, uploads, faults, creator, tomb, destroyed, toggled>>

\* new Comment({...}) at lines 425-429
NewComment(text, solutionId, user) ==
    [text |-> text, solutionId |-> solutionId, postedBy |-> CastObjectId(user)]

\* await comment.save(), populate, res.status(201); the solution id is not
\* looked up.
PostCommentsSave(r) ==
    /\ req[r].op = "postComment" /\ req[r].pc = "save"
    /\ LET doc == NewComment(req[r].body.description, req[r].id, req[r].user)
           id == Cardinality(DOMAIN comments) + 1
       IN IF Required(doc.text)
          THEN /\ comments' = comments @@ (id :> doc)
               /\ req' = [req EXCEPT ![r] = Respond(r, 201)]
          ELSE /\ req' = [req EXCEPT ![r] = Respond(r, 500)]
               /\ UNCHANGED comments
    /\ UNCHANGED <<users, problems, solutions, assets, uploads, faults, creator,
                   tomb, destroyed, toggled>>
    /\ Track(r)

\* ------------------------------------------------------- whole-API spec
\* All authenticated routes together.
InitApi == InitProblems

ApiSlots == 1..MaxApiReq

NextApi ==
    \E r \in ApiSlots :
        \/ PostProblemsRecv(r)
        \/ PostProblemsUpload(r)
        \/ PostProblemsSave(r)
        \/ PutProblemRecv(r)
        \/ PutProblemFindById(r)
        \/ PutProblemDestroy(r)
        \/ PutProblemUpload(r)
        \/ PutProblemSave(r)
        \/ DeleteProblemRecv(r)
        \/ DeleteProblemFindById(r)
        \/ DeleteProblemDestroy(r)
        \/ DeleteProblemRemove(r)
        \/ PostSolutionsRecv(r)
        \/ PostSolutionsSave(r)
        \/ PostUpvoteRecv(r)
        \/ PostUpvoteFindById(r)
        \/ PostUpvoteSave(r)
        \/ PostCommentsRecv(r)
        \/ PostCommentsSave(r)

SpecApi == InitApi /\ [][NextApi]_vars

\* ------------------------------------------------ POST /api/auth/register
Usernames == {"n1", "n2"}
Emails == {"e1", "e2"}
Passwords == {"p1"}
Salts == {1, 2}

\* Which of the body's email and username a stored user already has.
Taken(body) ==
    {f \in {"email", "username"} : \E u \in users : u[f] = body[f]}

PendingRegisters ==
    Cardinality({r \in Slots : /\ req[r].op = "register"
                               /\ req[r].pc \in {"findOne", "save"}})

\* No authenticateToken on this route.  The slot records, as history, which
\* of the two fields were taken when the request arrived.
PostRegisterRecv(r) ==
    /\ Free(r)
    /\ \E username \in Usernames, email \in Emails, password \in Passwords :
          LET body == [username |-> username, email |-> email, password |-> password]
          IN /\ Taken(body) = {} =>
                   Cardinality(users) + PendingRegisters < MaxUsers
             /\ req' = [req EXCEPT ![r] =
                           [Idle EXCEPT !.op = "register", !.pc = "findOne",
                                        !.body = body, !.taken = Taken(body)]]
    /\ Start(r)
    /\ UNCHANGED <<store, assets, uploads, faults, creator, tomb, destroyed, toggled>>

\* Mutant: the lookup asks for the email only.
ExistingUserByEmail(email, username) ==
    \E u \in users : u.email = email

\* User.findOne({ $or: [{ email }, { username }] }) finds a user
ExistingUser(email, username) ==
    \E u \in users : u.email = email \/ u.username = username

\* await User.findOne, lines 151-153, await bcrypt.hash(password, 10)
PostRegisterFindOne(r) ==
    /\ req[r].op = "register" /\ req[r].pc = "findOne"
    /\ \E salt \in Salts :
          req' = [req EXCEPT ![r] =
             IF ExistingUser(req[r].body.email, req[r].body.username)
             THEN [Respond(r, 400) EXCEPT !.taken = req[r].taken]
             ELSE [@ EXCEPT !.pc = "save",
                            !.doc = [username |-> req[r].body.username,
                                     email |-> req[r].body.email,
                                     password |-> Hash(req[r].body.password, salt)]]]
    /\ UNCHANGED <<store, assets, uploads, faults, creator, tomb, destroyed, toggled>>
    /\ Track(r)

\* Mutant: the schema declares no unique index.
UniqueIndexesMissing(doc) == TRUE

\* `unique: true` on username and on email (lines 43-44): the unique indexes
\* reject an insert that repeats either.
UniqueIndexesAllow(doc) ==
    \A u \in users : u.username # doc.username /\ u.email # doc.email

\* jwt.sign({ userId, username }, secret, { expiresIn: '24h' })
Sign(user) == [userId |-> OidString(user.id), username |-> user.username, hours |-> 24]

\* await user.save(); jwt.sign; res.status(201).json({message, token, user})
PostRegisterSave(r) ==
    /\ req[r].op = "register" /\ req[r].pc = "save"
    /\ LET user == [id |-> Cardinality(users) + 1, username |-> req[r].doc.username,
                    email |-> req[r].doc.email, password |-> req[r].doc.password]
       IN IF UniqueIndexesAllow(user)
          THEN /\ users' = users \cup {user}
               /\ req' = [req EXCEPT ![r] =
                             [Respond(r, 201) EXCEPT
                                 !.taken = req[r].taken,
                                 !.out = [token |-> Sign(user),
                                          user |-> [id |-> user.id,
                                                    username |-> user.username,
                                                    email |-> user.email]]]]
          ELSE /\ req' = [req EXCEPT ![r] =
                             [Respond(r, 500) EXCEPT !.taken = req[r].taken]]
               /\ UNCHANGED users
    /\ UNCHANGED <<problems, solutions, comments, assets, uploads, faults, creator,
                   tomb, destroyed, toggled>>
    /\ Track(r)

\* --------------------------------------------------- POST /api/auth/login
LoginPasswords == {"p1", "p2", Absent}

PostLoginRecv(r) ==
    /\ Free(r)
    /\ \E email \in Emails, password \in LoginPasswords :
          req' = [req EXCEPT ![r] =
                     [Idle EXCEPT !.op = "login", !.pc = "findOne",
                                  !.body = [email |-> email, password |-> password]]]
    /\ Start(r)
    /\ UNCHANGED <<store, assets, uploads, faults, creator, tomb, destroyed, toggled>>

\* User.findOne({ email })
FindUserByEmail(email) ==
    IF \E u \in users : u.email = email
    THEN CHOOSE u \in users : u.email = email
    ELSE NoDoc

\* Mutant: an unknown email gets an answer of its own.
NoSuchUserRevealed == [status |-> 404, message |-> "User not found"]

\* line 191: the answer when no user has the email
NoSuchUser == [status |-> 400, message |-> "Invalid credentials"]

\* line 197: the answer when the password does not match the hash
WrongPassword == [status |-> 400, message |-> "Invalid credentials"]

\* await User.findOne({ email }), lines 190-192
PostLoginFindOne(r) ==
    /\ req[r].op = "login" /\ req[r].pc = "findOne"
    /\ LET user == FindUserByEmail(req[r].body.email) IN
       req' = [req EXCEPT ![r] =
          IF user = NoDoc
          THEN [Respond(r, NoSuchUser.status) EXCEPT
                   !.out = [message |-> NoSuchUser.message]]
          ELSE [@ EXCEPT !.found = TRUE, !.doc = user, !.pc = "compare"]]
    /\ UNCHANGED <<store, assets, uploads, faults, creator, tomb, destroyed, toggled>>
    /\ Track(r)

\* bcrypt.compare(password, hash): resolves with whether the hash is of the
\* password ("true" / "false"); rejects when the password is not a string.
Compare(password, hash) ==
    IF password = Absent THEN "rejected"
    ELSE IF hash.of = password THEN "true" ELSE "false"

\* await bcrypt.compare, lines 196-214
PostLoginCompare(r) ==
    /\ req[r].op = "login" /\ req[r].pc = "compare"
    /\ LET user == req[r].doc
           isValidPassword == Compare(req[r].body.password, user.password)
           answered(code, out) ==
               [Respond(r, code) EXCEPT
                   !.out = out,
                   !.calls = <<<<"compare", isValidPassword>>>>]
       IN req' = [req EXCEPT ![r] =
             IF isValidPassword = "rejected"
             THEN answered(500, [message |-> "Server error"])
             ELSE IF isValidPassword = "false"
                  THEN answered(WrongPassword.status,
                                [message |-> WrongPassword.message])
             ELSE answered(200, [message |-> "Login successful",
                                 token |-> Sign(user),
                                 user |-> [id |-> user.id,
                                           username |-> user.username,
                                           email |-> user.email]])]
    /\ UNCHANGED <<store, assets, uploads, faults, creator, tomb, destroyed, toggled>>
    /\ Track(r)

\* ---------------------------------------------------------- auth spec
\* The state after start-up: nothing is stored.
Init ==
    /\ users = {}
    /\ problems = Empty /\ solutions = Empty /\ comments = Empty
    /\ assets = {} /\ uploads = 0
    /\ req = [r \in Slots |-> Idle]
    /\ wrote = [r \in Slots |-> FALSE]
    /\ faults = 0
    /\ creator = Empty /\ tomb = Empty /\ destroyed = Empty /\ toggled = Empty

NextAuth ==
    \E r \in Slots :
        \/ PostRegisterRecv(r)
        \/ PostRegisterFindOne(r)
        \/ PostRegisterSave(r)
        \/ PostLoginRecv(r)
        \/ PostLoginFindOne(r)
        \/ PostLoginCompare(r)

SpecAuth == Init /\ [][NextAuth]_vars

\* =================================================================== claims
Done(r, op) == req[r].op = op /\ req[r].pc = "done"

\* The request in slot r passed authenticateToken, its lookup found the
\* problem, and its user is not the one who created the problem.
NonOwner(r) ==
    /\ req[r].user # NoUser
    /\ req[r].found
    /\ creator[req[r].id] # req[r].user

UploadFailed(r) ==
    \E i \in 1..Len(req[r].calls) : req[r].calls[i] = <<"upload", Null>>

\* C1: a PUT by an authenticated user who is not the problem's owner, with
\* or without an image, ends with 403, has changed nothing in the record
\* store and has issued no upload or destroy call.
NonOwnerPutRejected ==
    \A r \in Slots :
        Done(r, "putProblem") /\ NonOwner(r) =>
            /\ req[r].resp = 403
            /\ ~wrote[r]
            /\ req[r].calls = <<>>

\* C1 witness: a non-owner's PUT with an image on a stored problem was
\* answered.
NonOwnerPutSeen ==
    \E r \in Slots :
        /\ Done(r, "putProblem") /\ NonOwner(r) /\ req[r].file
        /\ req[r].id \in DOMAIN problems
        /\ req[r].resp = 403

\* C2: every stored problem's postedBy is the identity of the request that
\* created it; every step that changes or removes a stored problem is a step
\* of a request authenticated as that owner; a DELETE by a non-owner ends
\* with 403, changes nothing and issues no destroy call.
OnlyOwnerMutates ==
    /\ [](\A p \in DOMAIN problems : OidString(problems[p].postedBy) = creator[p])
    /\ [][\A p \in DOMAIN problems :
            (p \notin DOMAIN problems' \/ problems'[p] # problems[p]) =>
                \E r \in Slots : req'[r] # req[r] /\ req[r].user = creator[p]]_vars
    /\ [](\A r \in Slots :
            Done(r, "deleteProblem") /\ NonOwner(r) =>
                /\ req[r].resp = 403
                /\ ~wrote[r]
                /\ req[r].calls = <<>>)

\* C2 witness: a non-owner's DELETE of a stored problem with an image was
\* answered and the problem is still stored.
NonOwnerDeleteSeen ==
    \E r \in Slots :
        /\ Done(r, "deleteProblem") /\ NonOwner(r)
        /\ req[r].id \in DOMAIN problems
        /\ problems[req[r].id].image # Null
        /\ req[r].resp = 403

NoDangling ==
    \A p \in DOMAIN problems :
        problems[p].image = Null \/ PublicIdOf(problems[p].image) \in assets

ProblemOps == {"postProblem", "putProblem", "deleteProblem"}

\* C3: when a create, update or delete request completes with 2xx, every
\* stored problem's image is null or names an asset the asset store holds.
\* The claim is taken at the moments that favour it most: those at which no
\* other request is in flight (no asset phase is half done).
NoDanglingAfterSuccess ==
    [][\A r \in Slots :
          /\ req[r].pc # "done" /\ req'[r].pc = "done"
          /\ req'[r].op \in ProblemOps /\ req'[r].resp \in {200, 201}
          /\ \A q \in Slots : req'[q].pc \in {"idle", "done"}
          => NoDangling']_vars

\* The assets the request in slot r uploaded.
Uploaded(r) ==
    {req[r].calls[i][2] : i \in {j \in 1..Len(req[r].calls) :
        req[r].calls[j][1] = "upload" /\ req[r].calls[j][2] # Null}}

Referenced(publicId) ==
    \E p \in DOMAIN problems :
        problems[p].image # Null /\ PublicIdOf(problems[p].image) = publicId

\* C4: after a create or update request ended with an error response, the
\* asset store holds no asset that request uploaded and no stored problem
\* references.
NoOrphanAfterFailure ==
    \A r \in Slots :
        (Done(r, "postProblem") \/ Done(r, "putProblem")) /\ req[r].resp = 500 =>
            \A a \in Uploaded(r) : a \in assets => Referenced(a)

\* C5: a create or update whose upload failed ended with 500 and has
\* changed nothing in the record store (no problem created, no field of the
\* existing problem changed).
UploadFailureLeavesRecords ==
    \A r \in Slots :
        (Done(r, "postProblem") \/ Done(r, "putProblem")) /\ UploadFailed(r) =>
            /\ req[r].resp = 500
            /\ ~wrote[r]

\* C5 witness: an owner's PUT destroyed the old image, its upload failed,
\* and the problem is stored.
UploadFailureSeen ==
    \E r \in Slots :
        /\ Done(r, "putProblem") /\ UploadFailed(r)
        /\ Len(req[r].calls) = 2
        /\ req[r].id \in DOMAIN problems

\* C6 as claimed: once a problem is removed, the DELETE requests on it have
\* issued exactly one destroy call for the image it held, and none at all
\* when it held no image.
OneDestroyPerRemovedProblem ==
    \A p \in DOMAIN tomb :
        IF tomb[p] = Null
        THEN \A k \in DOMAIN destroyed : k[1] # p
        ELSE Count(destroyed, <<p, PublicIdOf(tomb[p])>>) = 1

\* C6 amended: each DELETE request that passed the ownership check has
\* issued exactly one destroy call, for the image of the document it read,
\* when that document has an image, and none when it has none; a DELETE
\* answered 401, 403 or 404 has issued none.
OneDestroyPerDelete ==
    \A r \in Slots :
        Done(r, "deleteProblem") =>
            IF req[r].resp \in {200, 500}
            THEN req[r].calls =
                    IF req[r].doc.image = Null THEN <<>>
                    ELSE <<<<"destroy", PublicIdOf(req[r].doc.image)>>>>
            ELSE req[r].calls = <<>>

\* C6 witness: an owner's DELETE of a problem with an image was answered 200.
DeleteWithImageSeen ==
    \E r \in Slots :
        /\ Done(r, "deleteProblem") /\ req[r].resp = 200
        /\ req[r].doc.image # Null
        /\ req[r].id \in DOMAIN tomb

Range(seq) == {seq[i] : i \in 1..Len(seq)}

\* C7: two successive toggles of a solution by the same user, the second
\* reading after the first has saved and no other toggle saving in between,
\* leave the stored upvotes with the members and the count they had before
\* the first.
TwoTogglesCancel ==
    \A s \in DOMAIN toggled :
        Len(toggled[s]) = 2 =>
            LET first == toggled[s][1]
                second == toggled[s][2]
            IN  /\ first.user = second.user
                /\ first.readV + 1 = first.v
                /\ second.readV = first.v
                => /\ Range(second.after) = Range(first.before)
                   /\ Len(second.after) = Len(first.before)

\* C8: no stored upvotes array holds a user id twice.
NoDuplicateUpvotes ==
    \A s \in DOMAIN solutions :
        \A i, j \in 1..Len(solutions[s].upvotes) :
            i # j => solutions[s].upvotes[i] # solutions[s].upvotes[j]

\* C9: a toggle answered 200 returned the size of the upvotes it persisted
\* and whether the caller is in them, which is whether the caller was absent
\* from the array it read; a toggle on a missing solution is answered 404
\* and has changed nothing.
ToggleResponseExact ==
    \A r \in Slots :
        Done(r, "upvote") /\ req[r].user # NoUser =>
            IF req[r].found
            THEN req[r].resp = 200 =>
                    /\ req[r].out.upvotes = Len(req[r].doc.upvotes)
                    /\ req[r].out.hasUpvoted =
                          (CastObjectId(req[r].user) \in Range(req[r].doc.upvotes))
            ELSE req[r].resp = 404 /\ ~wrote[r]

\* C10: a register request whose email or username a stored user already
\* had when the request arrived is answered 400, has created no user and
\* got no token.
DuplicateRegisterRejected ==
    \A r \in Slots :
        Done(r, "register") /\ req[r].taken # {} =>
            /\ req[r].resp = 400
            /\ ~wrote[r]
            /\ req[r].out = <<>>

\* C10 witness: one request repeating only a stored email and one repeating
\* only a stored username were answered.
DuplicateRegisterSeen ==
    /\ \E r \in Slots :
          Done(r, "register") /\ req[r].taken = {"email"} /\ req[r].resp = 400
    /\ \E r \in Slots :
          Done(r, "register") /\ req[r].taken = {"username"} /\ req[r].resp = 400

\* C11: whatever the interleaving of register requests (each a lookup and
\* a separate save), no two stored users share a username and no two share
\* an email.
UniqueUsers ==
    \A u, v \in users :
        u # v => u.username # v.username /\ u.email # v.email

\* C11 witness: a register request whose lookup found nothing (neither field
\* was taken when it arrived) lost the race to a concurrent one and was
\* rejected by the save.
RegisterRaceSeen ==
    \E r \in Slots :
        /\ Done(r, "register") /\ req[r].taken = {} /\ req[r].resp = 500
        /\ ~wrote[r]
        /\ users # {}

\* The login in slot r failed because no user has the email / because the
\* password does not match the stored hash.
NoSuchEmail(r) == Done(r, "login") /\ ~req[r].found

PasswordMismatch(r) ==
    Done(r, "login") /\ req[r].found /\ req[r].calls = <<<<"compare", "false">>>>

\* C12: a login that failed because no user has the email and a login that
\* failed because the password does not match the hash got the same status
\* and the same body (400, Invalid credentials).
LoginFailuresUniform ==
    \A r1, r2 \in Slots :
        NoSuchEmail(r1) /\ PasswordMismatch(r2) =>
            /\ req[r1].resp = req[r2].resp
            /\ req[r1].out = req[r2].out
            /\ req[r1].resp = 400

\* C12 witness: both kinds of failed login have been answered.
LoginFailuresSeen ==
    \E r1, r2 \in Slots : NoSuchEmail(r1) /\ PasswordMismatch(r2)

AuthOps ==
    {"postProblem", "putProblem", "deleteProblem", "postSolution", "upvote",
     "postComment"}

\* The request in slot r, on an authenticated route, presented no token or
\* a token that fails verification.
Unauthenticated(r) ==
    req[r].op \in AuthOps /\ req[r].cred \in {NoToken, BadToken}

\* C13: on each authenticated route a request without a token is answered
\* 401 and one with an invalid token 403; the step that takes such a request
\* answers it at once, changes nothing in the record store or the asset
\* store, and the request has issued no asset call.
GateRejectsWithoutEffect ==
    /\ [](\A r \in Slots :
            Unauthenticated(r) =>
                /\ req[r].pc = "done"
                /\ req[r].resp = (IF req[r].cred = NoToken THEN 401 ELSE 403)
                /\ ~wrote[r]
                /\ req[r].calls = <<>>)
    /\ [][\A r \in Slots :
            req'[r] # req[r] /\ Unauthenticated(r)' =>
                UNCHANGED <<store, assets, uploads>>]_vars

\* C13 witness: with a problem, its image, a solution and a comment stored,
\* a request with an invalid token was answered 403.
GateRejectionSeen ==
    \E r \in Slots :
        /\ Unauthenticated(r) /\ req[r].cred = BadToken /\ req[r].resp = 403
        /\ assets # {}
        /\ DOMAIN problems # {} /\ DOMAIN solutions # {} /\ DOMAIN comments # {}

\* C14: the save of an owner's PUT that is answered 200 leaves each of
\* title, description and location equal to the value the request provides
\* when it provides one (the empty string included) and to the previous value
\* when it omits the field, and leaves status and postedBy as they were.
PutOverwritesProvided ==
    [][\A r \in Slots :
          /\ req[r].op = "putProblem" /\ req[r].pc = "save"
          /\ req'[r].pc = "done" /\ req'[r].resp = 200
          => LET old == problems[req[r].id]
                 new == problems'[req[r].id]
                 body == req[r].body
             IN  /\ \A f \in {"title", "description", "location"} :
                        new[f] = (IF body[f] # Absent THEN body[f] ELSE old[f])
                 /\ new.status = old.status
                 /\ new.postedBy = old.postedBy]_vars

\* C15: the step that creates a solution creates it for a problem that is
\* stored at that moment, and the step that creates a comment creates it for
\* a solution that is stored at that moment.
ReferencesExistAtCreation ==
    [][/\ \A s \in DOMAIN solutions' \ DOMAIN solutions :
             solutions'[s].problemId \in DOMAIN problems'
       /\ \A c \in DOMAIN comments' \ DOMAIN comments :
             comments'[c].solutionId \in DOMAIN solutions']_vars

\* The destroy call is the only call of the request in slot r that failed.
OnlyDestroyFailed(r) == req[r].failed = {"destroy"}

\* C16: a failed destroy never ends the request and changes no record: the
\* handler goes on to the removal (DELETE) or to the upload (PUT).  An
\* owner's DELETE whose only failed call is the destroy has removed the
\* record and is answered 200; the save of an owner's PUT whose only failed
\* call is the destroy persists the reference of the upload that followed
\* and is answered 200.
DestroyFailureSwallowed ==
    /\ [][\A r \in Slots :
            req[r].pc = "destroy" /\ req'[r] # req[r] =>
                /\ req'[r].pc = (IF req[r].op = "putProblem"
                                 THEN "upload" ELSE "remove")
                /\ store' = store]_vars
    /\ [](\A r \in Slots :
            Done(r, "deleteProblem") /\ OnlyDestroyFailed(r) =>
                /\ req[r].resp = 200
                /\ req[r].id \notin DOMAIN problems)
    /\ [][\A r \in Slots :
            /\ req[r].op = "putProblem" /\ req[r].pc = "save"
            /\ req'[r].pc = "done" /\ OnlyDestroyFailed(r)'
            => /\ req'[r].resp = 200
               /\ Len(req[r].calls) = 2
               /\ req[r].calls[2][1] = "upload"
               /\ PublicIdOf(problems'[req[r].id].image) = req[r].calls[2][2]]_vars

\* C16 witness: an owner's PUT with a new image, whose destroy of the old
\* image failed, was answered 200 and the problem holds the new reference.
DestroyFailureSeen ==
    \E r \in Slots :
        /\ Done(r, "putProblem") /\ OnlyDestroyFailed(r) /\ req[r].resp = 200
        /\ req[r].id \in DOMAIN problems
        /\ PublicIdOf(problems[req[r].id].image) = req[r].calls[2][2]

\* C17: a DELETE issues its destroy call only once the problem record is
\* removed; a DELETE whose removal failed has issued no destroy call, and
\* the image of the surviving record names a stored asset.
DestroyAfterRemoval ==
    /\ [][\A r \in Slots :
            /\ req[r].op = "deleteProblem"
            /\ Len(req'[r].calls) > Len(req[r].calls)
            => req[r].id \notin DOMAIN problems]_vars
    /\ [](\A r \in Slots :
            Done(r, "deleteProblem") /\ "remove" \in req[r].failed =>
                /\ req[r].calls = <<>>
                /\ req[r].id \in DOMAIN problems =>
                      \/ problems[req[r].id].image = Null
                      \/ PublicIdOf(problems[req[r].id].image) \in assets)

\* C18: a PUT with a new file on a problem that has an image issues the
\* destroy of the old image before its upload.  When that destroy succeeded
\* and the upload fails, the request is answered 500 and has changed no
\* record: a problem still holding the reference the request read keeps it,
\* and the reference names no stored asset.
DestroyBeforeUpload ==
    /\ [][\A r \in Slots :
            /\ req[r].op = "putProblem" /\ req[r].pc = "upload"
            /\ req'[r] # req[r]
            /\ req[r].doc.image # Null
            => LET old == req[r].doc.image
                   id == req[r].id
               IN  /\ req[r].calls = <<<<"destroy", PublicIdOf(old)>>>>
                   /\ UploadFailed(r)' /\ "destroy" \notin req[r].failed =>
                         /\ req'[r].pc = "done" /\ req'[r].resp = 500
                         /\ ~wrote'[r]
                         /\ problems' = problems
                         /\ PublicIdOf(old) \notin assets'
                         /\ id \in DOMAIN problems /\ problems[id].image = old =>
                               problems'[id].image = old]_vars
    /\ [](\A r \in Slots :
            req[r].op = "putProblem" =>
                \A i \in 1..Len(req[r].calls) :
                    req[r].calls[i][1] = "destroy" => i = 1)

\* C18 witness: an owner's PUT destroyed the old image, its upload failed,
\* it was answered 500, and the stored problem holds the destroyed reference.
DanglingAfterFailedUploadSeen ==
    \E r \in Slots :
        /\ Done(r, "putProblem") /\ UploadFailed(r) /\ req[r].resp = 500
        /\ req[r].failed = {"upload"}
        /\ req[r].calls[1][1] = "destroy"
        /\ req[r].id \in DOMAIN problems
        /\ PublicIdOf(problems[req[r].id].image) = req[r].calls[1][2]
        /\ req[r].calls[1][2] \notin assets

\* The last two successful toggles of solution s raced: they are by two
\* different users, neither of whom was in the array, both read the same
\* version, and nothing else was saved between the read and the first save.
UpvoteRace(s) ==
    /\ Len(toggled[s]) = 2
    /\ LET first == toggled[s][1]
           second == toggled[s][2]
       IN  /\ first.user # second.user
           /\ first.readV = second.readV
           /\ first.readV + 1 = first.v
           /\ CastObjectId(first.user) \notin Range(first.before)
           /\ CastObjectId(second.user) \notin Range(first.before)

\* The users of the last two toggles that the array stored after the second
\* one holds.
KeptAfterRace(s) ==
    {u \in {toggled[s][1].user, toggled[s][2].user} :
        CastObjectId(u) \in Range(toggled[s][2].after)}

\* C19 as claimed: after two racing upvotes that were both answered 200 the
\* stored upvotes hold only one of the two users.
RaceLosesAnUpvote ==
    \A s \in DOMAIN toggled :
        UpvoteRace(s) => Cardinality(KeptAfterRace(s)) = 1

\* C19 amended: after two racing upvotes that were both answered 200 the
\* stored upvotes hold both users.
RaceKeepsBothUpvotes ==
    \A s \in DOMAIN toggled :
        UpvoteRace(s) => Cardinality(KeptAfterRace(s)) = 2

\* C19 witness: two upvotes raced, both were answered 200 and both slots
\* still show it.
UpvoteRaceSeen ==
    \E s \in DOMAIN toggled :
        /\ UpvoteRace(s)
        /\ \A r \in Slots : Done(r, "upvote") /\ req[r].resp = 200
        /\ req[1].user # req[2].user

\* C20: every stored problem has status 'open', and no step of any route
\* changes the status of a stored problem.
StatusAlwaysOpen ==
    /\ [](\A p \in DOMAIN problems : problems[p].status = "open")
    /\ [][\A p \in DOMAIN problems \cap DOMAIN problems' :
            problems'[p].status = problems[p].status]_vars

\* C20 witness: with a solution and a comment stored, an owner's PUT has
\* changed the stored problem and was answered 200.
UpdatedProblemSeen ==
    \E r \in Slots :
        /\ Done(r, "putProblem") /\ req[r].resp = 200 /\ wrote[r]
        /\ req[r].id \in DOMAIN problems
        /\ DOMAIN solutions # {} /\ DOMAIN comments # {}

====
